---- MODULE Spec2Model ----
(***************************************************************************)
(* Model of trail_generator.py: the TrailGenerator engine (occupancy grid, *)
(* agent location/heading, move validity, move selection, trapped flag)    *)
(* and the App driver loop that constructs it and calls step() each tick.  *)
(*                                                                         *)
(* Probabilities are held in tenths: the integer k stands for k / 10.      *)
(* A draw of np_random.random() is a value of [0,1) on a grid of           *)
(* DrawScale points: the integer u \in 0..DrawScale-1 stands for           *)
(* u / DrawScale, so 0.0 is a possible draw and 1.0 is not.                *)
(***************************************************************************)
EXTENDS Integers, Sequences, FiniteSets, TLC

\* ------------------------------------------------------------------ bounds
MaxSize == 4
DrawScale == 3
MaxTicks == 4
TrailTicks == 5

\* ------------------------------------------------------- program constants
\* _direction_vectors: 0 Up, 1 Right, 2 Down, 3 Left, as <<d_row, d_col>>
direction_vectors ==
  [d \in 0..3 |-> CASE d = 0 -> <<-1, 0>>
                    [] d = 1 -> <<0, 1>>
                    [] d = 2 -> <<1, 0>>
                    [] d = 3 -> <<0, -1>>]

Moves == {"straight", "left", "right"}

move_to_direction_change ==
  [m \in Moves |-> CASE m = "straight" -> 0
                     [] m = "left" -> -1
                     [] m = "right" -> 1]

\* ------------------------------------------------------------------ inputs
SizeInputs == -1..MaxSize
\* -0.5, 0, 0.5, 1, 1.5
ProbInputs == {-5, 0, 5, 10, 15}
\* the constructor arguments tried: every size with every pair of valid
\* probabilities, and the sizes up to 2 with one probability out of range
\* beside a 0
EngineArgs ==
  {a \in SizeInputs \X ProbInputs \X ProbInputs :
     \/ (0 <= a[2] /\ a[2] <= 10 /\ 0 <= a[3] /\ a[3] <= 10)
     \/ (a[1] <= 2 /\ (a[2] = 0 \/ a[3] = 0))}
\* np_random.random(): a value of [0,1)
UnitDraws == 0..(DrawScale - 1)

\* ------------------------------------------------------------------- state
VARIABLES
  engine,           \* TRUE when a TrailGenerator object exists
  size,             \* self.size
  turn_prob,        \* self.turn_prob, in tenths
  forget_prob,      \* self.forget_prob, in tenths
  grid,             \* self.grid: the tuple of its rows of 0 | 1
  agent_location,   \* self._agent_location: <<row, col>>
  agent_direction,  \* self._agent_direction: 0..3
  is_trapped,       \* self.is_trapped
  err,              \* exception raised by the last engine call, or "none"
  last,             \* which return path the last engine call took
  ticks,            \* step() calls that got past the trapped check, this run
  order,            \* cells written by the marking phase this run, in order
  state,            \* App.state: "INPUT", "SIMULATING", "FINISHED"
  step_count,       \* App.step_count
  max_steps,        \* App.max_steps
  trail_name,       \* App.trail_name
  last_params,      \* App.last_params
  running,          \* the flag running of App.run()
  loop,             \* where App.run() is: "events" inside a pass of its
                    \* while loop, "exited" past the loop, "raised" left
                    \* by an exception, "none" before run()
  saved             \* what the last handler wrote to the trail file, if any

evars == <<engine, size, turn_prob, forget_prob, grid, agent_location,
           agent_direction, is_trapped, err, last, ticks, order>>

avars == <<state, step_count, max_steps, trail_name, last_params, running,
           loop, saved>>

vars == <<engine, size, turn_prob, forget_prob, grid, agent_location,
          agent_direction, is_trapped, err, last, ticks, order,
          state, step_count, max_steps, trail_name, last_params, running,
          loop, saved>>

\* ----------------------------------------------------------------- helpers
Add(a, b) == <<a[1] + b[1], a[2] + b[2]>>

InBounds(loc, n) == 0 <= loc[1] /\ loc[1] < n /\ 0 <= loc[2] /\ loc[2] < n

Cells(n) == (0..(n - 1)) \X (0..(n - 1))

\* np.zeros((n, n), dtype=np.uint8)
Zeros(n) == [r \in 1..n |-> [c \in 1..n |-> 0]]

\* grid[loc[0], loc[1]] for 0 <= loc[0], loc[1] < size; the grid is the
\* tuple of its rows, row r of the array at position r + 1
At(g, loc) == g[loc[1] + 1][loc[2] + 1]

\* grid[loc[0], loc[1]] = 1
SetAt(g, loc) == [g EXCEPT ![loc[1] + 1][loc[2] + 1] = 1]

\* numpy integer indexing on an axis of length n: a negative index counts
\* from the end; outside -n..n-1 it raises IndexError.
IndexOK(i, n) == -n <= i /\ i < n
NormIndex(i, n) == IF i < 0 THEN i + n ELSE i
IndexCell(loc, n) == <<NormIndex(loc[1], n), NormIndex(loc[2], n)>>

\* np_random.integers(size // 2 - 2, size // 2 + 2): high is exclusive
ResetRange(n) == ((n \div 2) - 2)..((n \div 2) + 1)

\* mutant of is_move_valid: the scan of the target's neighbours is dropped
is_move_valid_no_scan(target_loc, current_loc, g, n) ==
  At(g, target_loc) = 0

\* TrailGenerator._is_move_valid(target_loc, current_loc, grid); target_loc
\* is in bounds at every call site.
is_move_valid(target_loc, current_loc, g, n) ==
  /\ At(g, target_loc) = 0
  /\ \A i \in 0..3 :
       LET check_loc == Add(target_loc, direction_vectors[i])
       IN \/ check_loc = current_loc
          \/ ~InBounds(check_loc, n)
          \/ At(g, check_loc) = 0

\* the candidate of a relative move: <<next_loc, new_dir>>
Candidate(m, loc, dir) ==
  LET new_dir == (dir + move_to_direction_change[m]) % 4
  IN <<Add(loc, direction_vectors[new_dir]), new_dir>>

\* mutant of valid_moves: only the boundary check, _is_move_valid is not
\* called
valid_moves_bounds_only(g, loc, dir, n) ==
  {m \in Moves : InBounds(Candidate(m, loc, dir)[1], n)}

\* the keys of valid_moves after the enumeration loop of step()
valid_moves(g, loc, dir, n) ==
  {m \in Moves :
     LET next_loc == Candidate(m, loc, dir)[1]
     IN InBounds(next_loc, n) /\ is_move_valid(next_loc, loc, g, n)}

\* the moves chosen_move can be, given the draw u of np_random.random();
\* np_random.choice(turns) can return any element of turns.
chosen_moves(vm, u, tp) ==
  LET can_straight == "straight" \in vm
      turns == vm \cap {"left", "right"}
      can_turn == turns # {}
  IN IF can_straight /\ can_turn
       THEN (IF u * 10 < tp * DrawScale THEN turns ELSE {"straight"})
       ELSE IF can_turn THEN turns ELSE {"straight"}

\* mutant of marks: the comparison is reversed, the cell is marked with
\* probability forget_prob
marks_reversed(u, fp) == u * 10 < fp * DrawScale

\* the marking phase of step(): the draw u marks when u > forget_prob
marks(u, fp) == u * 10 > fp * DrawScale

\* -------------------------------------------------------------- operations
\* the engine fields while no TrailGenerator object exists
NoEngine ==
  [engine |-> FALSE, size |-> 0, turn_prob |-> 0, forget_prob |-> 0,
   grid |-> Zeros(0), agent_location |-> <<0, 0>>, agent_direction |-> 0,
   is_trapped |-> FALSE, err |-> "none", last |-> "none"]

\* TrailGenerator.__init__(grid_size, turn_prob, sparsity) followed by the
\* reset() it calls: the objects it can return.  np.zeros raises ValueError
\* on a negative dimension, and then no object is returned.
Constructed(gs, tp, sp) ==
  IF gs < 0
    THEN {[NoEngine EXCEPT !.size = gs, !.turn_prob = tp, !.forget_prob = sp,
                           !.err = "ValueError",
                           !.last = "construct_error"]}
    ELSE {[engine |-> TRUE, size |-> gs, turn_prob |-> tp,
           forget_prob |-> sp, grid |-> Zeros(gs),
           agent_location |-> loc, agent_direction |-> d,
           is_trapped |-> FALSE, err |-> "none", last |-> "reset"] :
            loc \in ResetRange(gs) \X ResetRange(gs), d \in 0..3}

\* the engine fields are those of e, at the start of a run
EngineIs(e) ==
  /\ engine = e.engine
  /\ size = e.size
  /\ turn_prob = e.turn_prob
  /\ forget_prob = e.forget_prob
  /\ grid = e.grid
  /\ agent_location = e.agent_location
  /\ agent_direction = e.agent_direction
  /\ is_trapped = e.is_trapped
  /\ err = e.err
  /\ last = e.last
  /\ ticks = 0
  /\ order = <<>>

\* self.trail_engine = e
EngineBecomes(e) ==
  /\ engine' = e.engine
  /\ size' = e.size
  /\ turn_prob' = e.turn_prob
  /\ forget_prob' = e.forget_prob
  /\ grid' = e.grid
  /\ agent_location' = e.agent_location
  /\ agent_direction' = e.agent_direction
  /\ is_trapped' = e.is_trapped
  /\ err' = e.err
  /\ last' = e.last
  /\ ticks' = 0
  /\ order' = <<>>

\* TrailGenerator.reset()
Reset ==
  /\ engine
  /\ grid' = Zeros(size)
  /\ agent_location' \in ResetRange(size) \X ResetRange(size)
  /\ agent_direction' \in 0..3
  /\ is_trapped' = FALSE
  /\ err' = "none"
  /\ last' = "reset"
  /\ ticks' = 0
  /\ order' = <<>>
  /\ UNCHANGED <<engine, size, turn_prob, forget_prob>>

\* mutant of StepNoop: the trapped check is dropped, so the marking phase
\* runs again on the trapped agent's cell
StepNoop_remark ==
  /\ is_trapped
  /\ last' = "step_noop"
  /\ err' = "none"
  /\ grid' = IF InBounds(agent_location, size)
               THEN SetAt(grid, agent_location) ELSE grid
  /\ UNCHANGED <<engine, size, turn_prob, forget_prob, agent_location,
                 agent_direction, is_trapped, ticks, order>>

\* step() when is_trapped is already set: returns at once
StepNoop ==
  /\ is_trapped
  /\ last' = "step_noop"
  /\ err' = "none"
  /\ UNCHANGED <<engine, size, turn_prob, forget_prob, grid, agent_location,
                 agent_direction, is_trapped, ticks, order>>

\* step() whose marking write indexes outside the array: IndexError
\* propagates out of step() before anything is assigned.
StepRaise(u1) ==
  /\ ~is_trapped
  /\ marks(u1, forget_prob)
  /\ ~(IndexOK(agent_location[1], size) /\ IndexOK(agent_location[2], size))
  /\ last' = "step_error"
  /\ err' = "IndexError"
  /\ ticks' = ticks + 1
  /\ UNCHANGED <<engine, size, turn_prob, forget_prob, grid, agent_location,
                 agent_direction, is_trapped, order>>

\* step() past the marking phase: enumerate, then trap or move.  The draw
\* u2 of line 128 and the pick of np_random.choice are made only on the
\* branches that use them; chosen_moves ignores u2 elsewhere.
StepRun(u1) ==
  /\ ~is_trapped
  /\ marks(u1, forget_prob) =>
       (IndexOK(agent_location[1], size) /\ IndexOK(agent_location[2], size))
  /\ LET marked == marks(u1, forget_prob)
         cell == IndexCell(agent_location, size)
         g == IF marked THEN SetAt(grid, cell) ELSE grid
         vm == valid_moves(g, agent_location, agent_direction, size)
     IN /\ grid' = g
        /\ order' = IF marked THEN Append(order, cell) ELSE order
        /\ IF vm = {}
             THEN /\ is_trapped' = TRUE
                  /\ last' = "step_trapped"
                  /\ UNCHANGED <<agent_location, agent_direction>>
             ELSE \E u2 \in UnitDraws :
                    \E chosen_move \in chosen_moves(vm, u2, turn_prob) :
                      LET c == Candidate(chosen_move, agent_location,
                                         agent_direction)
                      IN /\ agent_location' = c[1]
                         /\ agent_direction' = c[2]
                         /\ last' = "step_moved"
                         /\ UNCHANGED is_trapped
  /\ err' = "none"
  /\ ticks' = ticks + 1
  /\ UNCHANGED <<engine, size, turn_prob, forget_prob>>

\* TrailGenerator.step()
Step ==
  /\ engine
  /\ \/ StepNoop
     \/ /\ ticks < MaxTicks
        /\ \E u1 \in UnitDraws : StepRaise(u1) \/ StepRun(u1)

\* ------------------------------------------------------------ text values
\* A text is a sequence of one-character strings.
DigitChars == <<"0", "1", "2", "3", "4", "5", "6", "7", "8", "9">>

IsDigit(ch) == \E d \in 1..10 : DigitChars[d] = ch

DigitVal(ch) == (CHOOSE d \in 1..10 : DigitChars[d] = ch) - 1

AllDigits(t) == \A i \in 1..Len(t) : IsDigit(t[i])

RECURSIVE DigitsVal(_)
DigitsVal(t) ==
  IF t = <<>> THEN 0
  ELSE 10 * DigitsVal(SubSeq(t, 1, Len(t) - 1)) + DigitVal(t[Len(t)])

HasSign(t) == t # <<>> /\ t[1] \in {"-", "+"}
Unsigned(t) == IF HasSign(t) THEN Tail(t) ELSE t
SignOf(t) == IF t # <<>> /\ t[1] = "-" THEN -1 ELSE 1

\* int(text): an optional sign and one or more decimal digits; anything
\* else raises ValueError.  (Texts here hold no blanks or underscores.)
IntOK(t) == Unsigned(t) # <<>> /\ AllDigits(Unsigned(t))
IntVal(t) == SignOf(t) * DigitsVal(Unsigned(t))

\* the position of the first "." of a text, or Len + 1
DotAt(t) ==
  IF \E i \in 1..Len(t) : t[i] = "."
    THEN CHOOSE i \in 1..Len(t) :
           t[i] = "." /\ \A j \in 1..(i - 1) : t[j] # "."
    ELSE Len(t) + 1
IntPart(t) == SubSeq(t, 1, DotAt(t) - 1)
FracPart(t) == SubSeq(t, DotAt(t) + 1, Len(t))

\* float(text): an optional sign, digits with at most one ".", at least one
\* digit; anything else raises ValueError.  (Texts here hold no exponent,
\* "inf" or "nan".)
FloatOK(t) ==
  LET u == Unsigned(t)
  IN /\ AllDigits(IntPart(u))
     /\ AllDigits(FracPart(u))
     /\ Len(IntPart(u)) + Len(FracPart(u)) >= 1

\* the value of float(text) in tenths, for a text with at most one digit
\* after the "."
FloatTenths(t) ==
  LET u == Unsigned(t)
  IN SignOf(t) * (10 * DigitsVal(IntPart(u))
                  + (IF FracPart(u) = <<>> THEN 0
                     ELSE DigitVal(FracPart(u)[1])))

\* str(n) for n >= 0
RECURSIVE FormatInt(_)
FormatInt(n) ==
  IF n < 10 THEN <<DigitChars[n + 1]>>
  ELSE FormatInt(n \div 10) \o <<DigitChars[(n % 10) + 1]>>

\* mutant of CoordLine: the line is written as (row, col)
CoordLine_row_col(c, r) ==
  <<"(">> \o FormatInt(r) \o <<",", " ">> \o FormatInt(c) \o <<")", "\n">>

\* f"({c}, {r})\n"
CoordLine(c, r) ==
  <<"(">> \o FormatInt(c) \o <<",", " ">> \o FormatInt(r) \o <<")", "\n">>

\* the coordinates list of save_trail: rows ascending, then columns, the
\* cells k = r * n + c from k on
RECURSIVE Coordinates(_, _, _)
Coordinates(g, n, k) ==
  IF k >= n * n THEN <<>>
  ELSE LET r == k \div n
           c == k % n
       IN (IF At(g, <<r, c>>) = 1 THEN <<CoordLine(c, r)>> ELSE <<>>)
          \o Coordinates(g, n, k + 1)

\* ------------------------------------------------------------ driver inputs
\* The texts of the five input boxes at the click on "Generate Trail".
UntitledTrail ==
  <<"u", "n", "t", "i", "t", "l", "e", "d", "_", "t", "r", "a", "i", "l">>

BaseRow ==
  [name |-> <<>>, size |-> <<"4">>, tortuosity |-> <<"0", ".", "5">>,
   sparsity |-> <<"0">>, length |-> <<"1">>]

\* rows that pass the validation of start_simulation
ValidRows ==
  {BaseRow,
   [BaseRow EXCEPT !.name = <<"t">>, !.length = <<"2">>],
   [BaseRow EXCEPT !.sparsity = <<"0", ".", "5">>, !.length = <<"0">>],
   [BaseRow EXCEPT !.sparsity = <<"1">>, !.length = <<"0">>],
   [BaseRow EXCEPT !.size = <<"1">>, !.tortuosity = <<"1">>]}

\* BaseRow with one box holding an unparsable or an out-of-range text
FaultRows ==
  {[BaseRow EXCEPT !.size = t] :
     t \in {<<"0", ".", "5">>, <<"0">>}}
  \cup {[BaseRow EXCEPT !.tortuosity = t] :
          t \in {<<"x">>, <<"1", ".", "5">>}}
  \cup {[BaseRow EXCEPT !.sparsity = t] :
          t \in {<<"-", "0", ".", "5">>}}
  \cup {[BaseRow EXCEPT !.length = t] :
          t \in {<<"-", "1">>}}

InputRows == ValidRows \cup FaultRows

\* no file was written by the last handler
NoOutput == [file |-> <<>>, lines |-> <<>>, status |-> "none"]

\* last_params = {}
NoParams == [k \in {} |-> <<>>]

\* ------------------------------------------------------- driver operations
\* App.__init__ and the entry of run(): running = True, first pass
AppInit ==
  /\ state = "INPUT"
  /\ step_count = 0
  /\ max_steps = 0
  /\ trail_name = <<>>
  /\ last_params = NoParams
  /\ running = TRUE
  /\ loop = "events"
  /\ saved = NoOutput
  /\ EngineIs(NoEngine)

\* mutant of StartSimulation: the range check does not test grid_size > 0
StartSimulation_any_size(row) ==
  /\ loop = "events"
  /\ state = "INPUT"
  /\ last_params' = row
  /\ trail_name' = IF row.name # <<>> THEN row.name ELSE UntitledTrail
  /\ saved' = NoOutput
  /\ UNCHANGED <<running, loop>>
  /\ IF ~(/\ IntOK(row.size) /\ FloatOK(row.tortuosity)
          /\ FloatOK(row.sparsity) /\ IntOK(row.length))
       THEN /\ state' = "INPUT"
            /\ UNCHANGED <<evars, step_count, max_steps>>
       ELSE LET grid_size == IntVal(row.size)
                tortuosity == FloatTenths(row.tortuosity)
                sparsity == FloatTenths(row.sparsity)
                trail_length == IntVal(row.length)
            IN IF ~(/\ 0 <= tortuosity /\ tortuosity <= 10
                    /\ 0 <= sparsity /\ sparsity <= 10
                    /\ trail_length >= 0)
                 THEN /\ state' = "INPUT"
                      /\ UNCHANGED <<evars, step_count, max_steps>>
                 ELSE /\ max_steps' = trail_length
                      /\ step_count' = 0
                      /\ \E e \in Constructed(grid_size, tortuosity,
                                              sparsity) : EngineBecomes(e)
                      /\ state' = "SIMULATING"

\* App.start_simulation with the input boxes holding row: the click on
\* "Generate Trail" among the events of a pass in state INPUT
StartSimulation(row) ==
  /\ loop = "events"
  /\ state = "INPUT"
  /\ last_params' = row
  /\ trail_name' = IF row.name # <<>> THEN row.name ELSE UntitledTrail
  /\ saved' = NoOutput
  /\ UNCHANGED <<running, loop>>
  /\ IF ~(/\ IntOK(row.size) /\ FloatOK(row.tortuosity)
          /\ FloatOK(row.sparsity) /\ IntOK(row.length))
       THEN \* ValueError caught
            /\ state' = "INPUT"
            /\ UNCHANGED <<evars, step_count, max_steps>>
       ELSE LET grid_size == IntVal(row.size)
                tortuosity == FloatTenths(row.tortuosity)
                sparsity == FloatTenths(row.sparsity)
                trail_length == IntVal(row.length)
            IN IF ~(/\ 0 <= tortuosity /\ tortuosity <= 10
                    /\ 0 <= sparsity /\ sparsity <= 10
                    /\ grid_size > 0 /\ trail_length >= 0)
                 THEN /\ state' = "INPUT"
                      /\ UNCHANGED <<evars, step_count, max_steps>>
                 ELSE /\ max_steps' = trail_length
                      /\ step_count' = 0
                      /\ \E e \in Constructed(grid_size, tortuosity,
                                              sparsity) : EngineBecomes(e)
                      /\ state' = "SIMULATING"

\* mutant of is_finished: the trapped flag is not consulted
is_finished_count_only(trapped, maxs, count) ==
  maxs > 0 /\ count >= maxs

\* the termination test of App.run() after a step
is_finished(trapped, maxs, count) ==
  trapped \/ (maxs > 0 /\ count >= maxs)

\* the end of a pass of App.run(): where the loop goes after draw() and
\* clock.tick(), by the test of `while running`
AfterPass == IF running THEN "events" ELSE "exited"

\* the rest of a pass after its events, in state SIMULATING, whose step()
\* returns: the tick of lines 182-192, then the loop test.  The tick runs
\* whether or not a QUIT of this pass has cleared running.
RunTick ==
  /\ loop = "events"
  /\ state = "SIMULATING"
  /\ \/ StepNoop
     \/ /\ ticks < MaxTicks
        /\ \E u1 \in UnitDraws : StepRun(u1)
  /\ step_count' = step_count + 1
  /\ state' = IF is_finished(is_trapped', max_steps, step_count')
                THEN "FINISHED" ELSE state
  /\ loop' = AfterPass
  /\ saved' = NoOutput
  /\ UNCHANGED <<max_steps, trail_name, last_params, running>>

\* the rest of a pass whose step() raises: nothing catches the exception,
\* it leaves run() at line 183
RunTickRaise ==
  /\ loop = "events"
  /\ state = "SIMULATING"
  /\ ticks < MaxTicks
  /\ \E u1 \in UnitDraws : StepRaise(u1)
  /\ loop' = "raised"
  /\ saved' = NoOutput
  /\ UNCHANGED <<state, step_count, max_steps, trail_name, last_params,
                 running>>

\* the rest of a pass after its events, in state INPUT or FINISHED: no
\* tick, then the loop test
IdlePass ==
  /\ loop = "events"
  /\ state # "SIMULATING"
  /\ loop' = AfterPass
  /\ saved' = NoOutput
  /\ UNCHANGED <<evars, state, step_count, max_steps, trail_name,
                 last_params, running>>

\* App.save_trail from the "Save Trail" button, a click among the events
\* of a pass in state FINISHED; ok is whether open/write
\* succeeded (IOError is caught and reported)
SaveTrail(ok) ==
  /\ loop = "events"
  /\ state = "FINISHED"
  /\ engine
  /\ saved' = [file |-> trail_name \o <<".", "t", "x", "t">>,
               lines |-> IF ok THEN Coordinates(grid, size, 0) ELSE <<>>,
               status |-> IF ok THEN "written" ELSE "IOError"]
  /\ UNCHANGED <<evars, state, step_count, max_steps, trail_name,
                 last_params, running, loop>>

\* the "Restart" button of handle_finished_events
Restart ==
  /\ loop = "events"
  /\ state = "FINISHED"
  /\ state' = "INPUT"
  /\ saved' = NoOutput
  /\ UNCHANGED <<evars, step_count, max_steps, trail_name, last_params,
                 running, loop>>

\* a pygame.QUIT among the events of a pass: only the flag is cleared;
\* the later events of the pass and its tick still run
Quit ==
  /\ loop = "events"
  /\ running' = FALSE
  /\ saved' = NoOutput
  /\ UNCHANGED <<evars, state, step_count, max_steps, trail_name,
                 last_params, loop>>

\* ---------------------------------------------------------- specifications
\* the application fields while no App object exists
NoApp ==
  /\ state = "NONE"
  /\ step_count = 0
  /\ max_steps = 0
  /\ trail_name = <<>>
  /\ last_params = NoParams
  /\ running = FALSE
  /\ loop = "none"
  /\ saved = NoOutput

\* The engine used on its own: constructed with any arguments, then reset()
\* and step() called in any order.
Init ==
  /\ \E a \in EngineArgs :
       \E e \in Constructed(a[1], a[2], a[3]) : EngineIs(e)
  /\ NoApp

EngineReset == Reset /\ UNCHANGED avars

EngineStep == Step /\ UNCHANGED avars

Next == EngineReset \/ EngineStep

Spec == Init /\ [][Next]_vars

\* The engine of the concrete scenario of the specification, stepped from
\* construction: TrailGenerator(5, 0, 0).
ScenarioInit ==
  /\ \E e \in Constructed(5, 0, 0) : EngineIs(e)
  /\ NoApp

ScenarioNext == EngineStep

ScenarioSpec == ScenarioInit /\ [][ScenarioNext]_vars

\* An engine that forgets, stepped from construction:
\* TrailGenerator(4, 0.5, 0.5) whose reset() drew the location ForgetfulStart.
ForgetfulStart == <<1, 1>>

ForgetfulInit ==
  /\ \E e \in Constructed(4, 5, 5) :
       e.agent_location = ForgetfulStart /\ EngineIs(e)
  /\ NoApp

ForgetfulNext == EngineStep

ForgetfulSpec == ForgetfulInit /\ [][ForgetfulNext]_vars

\* An engine on a grid of size >= 4, stepped from construction for up to
\* TrailTicks step() calls: TrailGenerator(n, 0.5, sp) for every forget
\* probability sp of 0, 0.5 and 1.  With turn probability 0.5 every accepted
\* candidate can be chosen.
TrailArgs == {<<n, 5, sp>> : n \in 4..MaxSize, sp \in {0, 5, 10}}

TrailInit ==
  /\ \E a \in TrailArgs :
       \E e \in Constructed(a[1], a[2], a[3]) : EngineIs(e)
  /\ NoApp

TrailStep ==
  /\ engine
  /\ \/ StepNoop
     \/ /\ ticks < TrailTicks
        /\ \E u1 \in UnitDraws : StepRaise(u1) \/ StepRun(u1)
  /\ UNCHANGED avars

TrailNext == TrailStep

TrailSpec == TrailInit /\ [][TrailNext]_vars

\* The application: App() and its run() loop.
DriverInit == AppInit

DriverNext ==
  \/ \E row \in InputRows : StartSimulation(row)
  \/ RunTick
  \/ RunTickRaise
  \/ IdlePass
  \/ \E ok \in BOOLEAN : SaveTrail(ok)
  \/ Restart
  \/ Quit

DriverSpec == DriverInit /\ [][DriverNext]_vars

\* ================================================================== claims
\* EngineConfig of the specification: size > 0, both probabilities in [0,1]
ValidConfig ==
  /\ size > 0
  /\ 0 <= turn_prob /\ turn_prob <= 10
  /\ 0 <= forget_prob /\ forget_prob <= 10

Abs(x) == IF x < 0 THEN -x ELSE x

\* orthogonal adjacency of two cells
Adjacent(a, b) == Abs(a[1] - b[1]) + Abs(a[2] - b[2]) = 1

\* the Visited orthogonal neighbours of a cell in grid g
VisitedNeighbours(cell, g, n) ==
  {k \in Cells(n) : Adjacent(k, cell) /\ At(g, k) = 1}

\* a transition made by a step() call on a non-trapped engine
SteppedLive == engine /\ ~is_trapped /\ ticks' = ticks + 1

\* the claim's wording of "candidate in direction d is in-bounds and accepted
\* by the validity rule", read on grid g from location loc
Accepted(d, loc, g, n) ==
  LET t == Add(loc, direction_vectors[d])
  IN /\ InBounds(t, n)
     /\ At(g, t) = 0
     /\ \A k \in Cells(n) : (Adjacent(k, t) /\ k # loc) => At(g, k) = 0

Straight(dir) == dir
LeftOf(dir) == (dir + 3) % 4
RightOf(dir) == (dir + 1) % 4

\* C1: for every valid configuration, after construction/reset() and any
\* number of step() calls, the agent location is inside [0,size) x [0,size).
C1_Boundedness ==
  (engine /\ ValidConfig) => InBounds(agent_location, size)

\* C2: in a run with forget_probability = 0, a cell has at most one Visited
\* orthogonal neighbour at the moment step() marks it (the cell marked just
\* before it), and any two orthogonally adjacent Visited cells were marked
\* consecutively.
C2_AdjacencyInvariant ==
  [][(forget_prob = 0 /\ SteppedLive) =>
       /\ \A i, j \in 1..Len(order') :
            Adjacent(order'[i], order'[j]) => (i - j = 1 \/ j - i = 1)
       /\ Len(order') = Len(order) + 1 =>
            LET cell == order'[Len(order')]
                vis == VisitedNeighbours(cell, grid', size)
            IN /\ Cardinality(vis) <= 1
               /\ vis \subseteq
                    (IF order = <<>> THEN {} ELSE {order[Len(order)]})]_vars

\* C2 witness: a forget_probability = 0 run on a valid grid that has marked
\* three cells around a corner
C2_Witness ==
  /\ ValidConfig /\ size >= 4 /\ forget_prob = 0
  /\ Len(order) >= 3
  /\ Adjacent(order[1], order[2]) /\ Adjacent(order[2], order[3])
  /\ order[1][1] # order[3][1] /\ order[1][2] # order[3][2]

\* C3: once trapped, every further step() leaves grid, location, heading
\* and the trapped flag unchanged; trapped stays true until reset().
C3_StickyTrapped ==
  [][(is_trapped /\ last' # "reset") =>
       /\ is_trapped'
       /\ grid' = grid
       /\ agent_location' = agent_location
       /\ agent_direction' = agent_direction]_vars

\* C3 witness: step() has been called on a trapped engine whose cell was
\* not marked
C3_Witness ==
  /\ is_trapped /\ last = "step_noop"
  /\ InBounds(agent_location, size) /\ At(grid, agent_location) = 0

\* C4: a step() from a non-trapped state sets trapped iff none of the three
\* relative candidates is in-bounds and accepted, and then leaves location
\* and heading unchanged.
C4_TrappedIffNoCandidate ==
  [][(ValidConfig /\ SteppedLive) =>
       LET none == \A d \in {Straight(agent_direction),
                              LeftOf(agent_direction),
                              RightOf(agent_direction)} :
                     ~Accepted(d, agent_location, grid', size)
       IN /\ is_trapped' <=> none
          /\ is_trapped' => (/\ agent_location' = agent_location
                             /\ agent_direction' = agent_direction)]_vars

\* C5: step() only ever changes a cell from Unvisited to Visited, and
\* changes at most the agent's pre-move cell.
C5_MonotonicMarking ==
  [][(ValidConfig /\ (SteppedLive \/ (is_trapped /\ last' = "step_noop"))) =>
       \A cell \in Cells(size) :
         /\ At(grid, cell) = 1 => At(grid', cell) = 1
         /\ At(grid', cell) # At(grid, cell) => cell = agent_location]_vars

\* C6: with turn_probability = 0, step() keeps the heading whenever straight
\* and at least one turn are accepted; with turn_probability = 1, step()
\* changes the heading by +1 or -1 mod 4 whenever a turn is accepted.
C6_TurnProbabilityEffect ==
  [][(ValidConfig /\ SteppedLive) =>
       LET s == Accepted(Straight(agent_direction), agent_location,
                         grid', size)
           t == \/ Accepted(LeftOf(agent_direction), agent_location,
                            grid', size)
                \/ Accepted(RightOf(agent_direction), agent_location,
                            grid', size)
       IN /\ (turn_prob = 0 /\ s /\ t) =>
               agent_direction' = agent_direction
          /\ (turn_prob = 10 /\ t) =>
               agent_direction' \in {LeftOf(agent_direction),
                                     RightOf(agent_direction)}]_vars

\* the grid of size n whose Visited cells are exactly the set vs
GridOf(vs, n) ==
  [r \in 1..n |-> [c \in 1..n |-> IF <<r - 1, c - 1>> \in vs THEN 1 ELSE 0]]

\* the configuration of the concrete scenario
Scenario == engine /\ size = 5 /\ forget_prob = 0 /\ turn_prob = 0

\* C7: size 5, agent at (2,2) heading Up, empty grid, forget 0, turn 0:
\* step 1 marks (2,2) and moves to (1,2); step 2 marks (1,2) and moves to
\* (0,2); step 3 ends at (0,1) heading Left or at (0,3) heading Right.
C7_ConcreteScenario ==
  [][/\ (/\ Scenario /\ ticks = 0 /\ ticks' = 1
         /\ grid = Zeros(5)
         /\ agent_location = <<2, 2>> /\ agent_direction = 0) =>
          (/\ grid' = GridOf({<<2, 2>>}, 5)
           /\ agent_location' = <<1, 2>> /\ agent_direction' = 0)
     /\ (/\ Scenario /\ ticks = 1 /\ ticks' = 2
         /\ grid = GridOf({<<2, 2>>}, 5)
         /\ agent_location = <<1, 2>> /\ agent_direction = 0) =>
          (/\ grid' = GridOf({<<2, 2>>, <<1, 2>>}, 5)
           /\ agent_location' = <<0, 2>> /\ agent_direction' = 0)
     /\ (/\ Scenario /\ ticks = 2 /\ ticks' = 3
         /\ grid = GridOf({<<2, 2>>, <<1, 2>>}, 5)
         /\ agent_location = <<0, 2>> /\ agent_direction = 0) =>
          (\/ agent_location' = <<0, 1>> /\ agent_direction' = 3
           \/ agent_location' = <<0, 3>> /\ agent_direction' = 1)]_vars

\* C9: for every valid configuration, construction, reset() and every
\* step() complete without raising an error.
C9_NoErrorOnValidConfig ==
  ValidConfig => err = "none"

\* C10: constructing the engine with an invalid configuration raises a
\* construction-time error and yields no usable engine.
C10_InvalidConfigRejected ==
  ~ValidConfig => (~engine /\ err # "none")

\* C8: the driver never calls step() on an engine a previous call left
\* trapped; with max_steps = n > 0 it calls step() at most n times per run
\* and finishes no earlier unless trapped; with max_steps = 0 it finishes
\* only when trapped.  (ticks counts the step() calls of the run.)
C8_DriverStopsStepping ==
  /\ last # "step_noop"
  /\ state = "SIMULATING" => ~is_trapped
  /\ (engine /\ max_steps > 0) => ticks <= max_steps
  /\ (loop # "raised" /\ state = "SIMULATING" /\ max_steps > 0) =>
       ticks < max_steps
  /\ (state = "FINISHED" /\ ~is_trapped) =>
       (max_steps > 0 /\ ticks = max_steps)

\* C8 witness: a run with max_steps = 2 finished by the counter after two
\* step() calls, the engine not trapped
C8_Witness ==
  /\ state = "FINISHED" /\ max_steps = 2 /\ step_count = 2 /\ ticks = 2
  /\ ~is_trapped

\* the claim's reading of an input row: every box parses and the values are
\* in range (size > 0, tortuosity and sparsity in [0,1], length >= 0)
RowInRange(row) ==
  /\ IntOK(row.size) /\ IntVal(row.size) > 0
  /\ FloatOK(row.tortuosity)
  /\ 0 <= FloatTenths(row.tortuosity) /\ FloatTenths(row.tortuosity) <= 10
  /\ FloatOK(row.sparsity)
  /\ 0 <= FloatTenths(row.sparsity) /\ FloatTenths(row.sparsity) <= 10
  /\ IntOK(row.length) /\ IntVal(row.length) >= 0

\* what the claim expects start_simulation to read from each input row
\* (tabulated once)
RowReading ==
  [row \in InputRows |->
     IF RowInRange(row)
       THEN [ok |-> TRUE, size |-> IntVal(row.size),
             turn_prob |-> FloatTenths(row.tortuosity),
             forget_prob |-> FloatTenths(row.sparsity),
             max_steps |-> IntVal(row.length)]
       ELSE [ok |-> FALSE, size |-> 0, turn_prob |-> 0, forget_prob |-> 0,
             max_steps |-> 0]]

\* a transition made by start_simulation: the only step of a pass in state
\* INPUT that changes anything but the flag running or the position of the
\* loop; last_params' holds the texts it read
Started ==
  /\ loop = "events" /\ state = "INPUT"
  /\ loop' = loop /\ running' = running
  /\ last_params' \in InputRows

\* C11: start_simulation on out-of-range or unparsable input leaves the app
\* in INPUT and creates no engine; otherwise it creates the engine with
\* exactly the parsed values and enters SIMULATING with step_count = 0.
C11_DriverValidatesInput ==
  [][Started =>
       LET rd == RowReading[last_params']
       IN IF rd.ok
            THEN /\ state' = "SIMULATING"
                 /\ step_count' = 0
                 /\ max_steps' = rd.max_steps
                 /\ engine'
                 /\ size' = rd.size
                 /\ turn_prob' = rd.turn_prob
                 /\ forget_prob' = rd.forget_prob
                 /\ grid' = Zeros(size') /\ ticks' = 0 /\ ~is_trapped'
            ELSE /\ state' = "INPUT"
                 /\ UNCHANGED <<evars, step_count, max_steps>>]_vars

\* C11 witness: after a finished run and a restart, a click with a faulty
\* box was rejected: the app is in INPUT and still holds the old engine
C11_Witness ==
  /\ state = "INPUT" /\ running
  /\ last_params \in FaultRows
  /\ engine /\ ticks > 0

\* reading a line of the trail file back: the position of its comma, whether
\* it has the form "(" digits ", " digits ")" newline, and the cell
\* <<row, col>> it names
CommaAt(t) ==
  IF \E i \in 1..Len(t) : t[i] = ","
    THEN CHOOSE i \in 1..Len(t) : t[i] = "," /\ \A j \in 1..(i - 1) : t[j] # ","
    ELSE 0

LineOK(t) ==
  LET k == CommaAt(t)
  IN /\ Len(t) >= 7 /\ k >= 3 /\ k + 4 <= Len(t)
     /\ t[1] = "(" /\ t[k + 1] = " "
     /\ t[Len(t) - 1] = ")" /\ t[Len(t)] = "\n"
     /\ AllDigits(SubSeq(t, 2, k - 1))
     /\ AllDigits(SubSeq(t, k + 2, Len(t) - 2))

LineCell(t) ==
  LET k == CommaAt(t)
  IN <<DigitsVal(SubSeq(t, k + 2, Len(t) - 2)), DigitsVal(SubSeq(t, 2, k - 1))>>

\* row ascending, then column ascending
RowMajorBefore(a, b) == a[1] < b[1] \/ (a[1] = b[1] /\ a[2] < b[2])

\* C12: the file save_trail writes holds exactly one "(col, row)" line per
\* Visited cell, none for an Unvisited cell, rows ascending then columns
\* ascending.
C12_SaveTrailLines ==
  saved.status = "written" =>
    /\ \A i \in 1..Len(saved.lines) :
         /\ LineOK(saved.lines[i])
         /\ LineCell(saved.lines[i]) \in Cells(size)
         /\ At(grid, LineCell(saved.lines[i])) = 1
    /\ \A i, j \in 1..Len(saved.lines) :
         i < j => RowMajorBefore(LineCell(saved.lines[i]),
                                 LineCell(saved.lines[j]))
    /\ \A cell \in Cells(size) :
         At(grid, cell) = 1 =>
           \E i \in 1..Len(saved.lines) : LineCell(saved.lines[i]) = cell

\* C12 witness: a file written for a grid with Visited cells in two rows
\* and two columns, and Unvisited cells
C12_Witness ==
  /\ saved.status = "written"
  /\ Len(saved.lines) >= 3
  /\ \E a, b \in Cells(size) :
       /\ At(grid, a) = 1 /\ At(grid, b) = 1
       /\ a[1] # b[1] /\ a[2] # b[2]

\* a transition made by a step() call on a non-trapped engine that returned
SteppedReturned == SteppedLive /\ last' # "step_error"

\* the <<location, heading>> pairs of the candidates accepted from loc, dir
\* on grid g
AcceptedCandidates(g, loc, dir, n) ==
  {Candidate(m, loc, dir) : m \in valid_moves(g, loc, dir, n)}

\* C13: within one step() the marking phase never blocks movement: the
\* candidates accepted after the marking write are those accepted on the
\* pre-step grid, so the step traps, or moves to a candidate, exactly as it
\* would have without the mark.
C13_MarkingNeverBlocks ==
  [][(ValidConfig /\ SteppedReturned) =>
       LET unmarked == AcceptedCandidates(grid, agent_location,
                                          agent_direction, size)
           after == AcceptedCandidates(grid', agent_location,
                                       agent_direction, size)
       IN /\ after = unmarked
          /\ is_trapped' <=> unmarked = {}
          /\ ~is_trapped' =>
               <<agent_location', agent_direction'>> \in unmarked]_vars

\* the agent has just moved back into the cell it occupied at tick 0
Revisited ==
  /\ engine /\ forget_prob > 0
  /\ ticks > 0 /\ last = "step_moved"
  /\ agent_location = ForgetfulStart

\* C14: with forget_probability > 0 a run can move the agent into a cell it
\* occupied on an earlier tick; it does so only when that cell was never
\* marked, and a cell that was marked is never re-entered: only marks
\* constrain later moves.
C14_UnmarkedCellsDoNotConstrain ==
  /\ Revisited => At(grid, ForgetfulStart) = 0
  /\ (engine /\ ~is_trapped) => At(grid, agent_location) = 0

\* C14 witness: the agent is back on its start cell after a loop of four
\* moves, and a cell of the loop was marked on the way
C14_Witness ==
  /\ Revisited /\ ticks = 4
  /\ order # <<>>

\* the unit vector of a heading, as the claim states the mapping
UnitVector(h) ==
  CASE h = 0 -> <<-1, 0>>
    [] h = 1 -> <<0, 1>>
    [] h = 2 -> <<1, 0>>
    [] h = 3 -> <<0, -1>>

\* C15: every step() that does not trap moves the agent exactly one cell:
\* the new heading is the old one, or one quarter turn from it (never the
\* reverse), and the new location is the old one plus the unit vector of
\* the new heading.
C15_OneCellMove ==
  [][(ValidConfig /\ SteppedLive /\ ~is_trapped') =>
       /\ agent_direction' \in {agent_direction,
                                (agent_direction + 1) % 4,
                                (agent_direction + 3) % 4}
       /\ agent_location' = Add(agent_location,
                                UnitVector(agent_direction'))]_vars

\* C16: right after a step() that moves the agent, the new cell is Unvisited
\* and so is every in-grid orthogonal neighbour of it other than the cell
\* just left; and at the start of every step() on a non-trapped engine the
\* agent's cell is Unvisited.
C16_FreshCellAfterMove ==
  [][SteppedLive =>
       /\ InBounds(agent_location, size) => At(grid, agent_location) = 0
       /\ last' = "step_moved" =>
            /\ InBounds(agent_location', size)
            /\ At(grid', agent_location') = 0
            /\ \A k \in Cells(size) :
                 (Adjacent(k, agent_location') /\ k # agent_location) =>
                   At(grid', k) = 0]_vars

\* C16 witness: the agent has just moved, the cell it left is Visited and
\* adjacent to its new, Unvisited cell, and an older cell is Visited too
C16_Witness ==
  /\ engine /\ size >= 4 /\ last = "step_moved"
  /\ Len(order) >= 2
  /\ Adjacent(order[Len(order)], agent_location)
  /\ At(grid, order[Len(order)]) = 1
  /\ At(grid, agent_location) = 0

\* C17: for size >= 4 and any forget_probability of [0,1], every Visited
\* cell has at most two orthogonally adjacent Visited cells.
C17_NoBranching ==
  (engine /\ ValidConfig /\ size >= 4) =>
    \A cell \in Cells(size) :
      At(grid, cell) = 1 =>
        Cardinality(VisitedNeighbours(cell, grid, size)) <= 2

\* C17 witness: under a forget_probability strictly between 0 and 1, a
\* Visited cell with two Visited neighbours next to a cell the agent
\* occupied without marking it
C17_Witness ==
  /\ engine /\ size >= 4 /\ forget_prob = 5
  /\ Len(order) < ticks
  /\ \E cell \in Cells(size) :
       /\ At(grid, cell) = 1
       /\ Cardinality(VisitedNeighbours(cell, grid, size)) = 2

\* the Visited cells of grid g
VisitedCells(g, n) == {cell \in Cells(n) : At(g, cell) = 1}

\* C18: for size >= 4 with forget_probability = 0, after k step() calls on
\* a non-trapped engine exactly k cells are Visited, one per tick, each the
\* cell the agent occupied on that tick, and the agent never occupies a
\* cell twice.
C18_OneCellPerTick ==
  (engine /\ ValidConfig /\ size >= 4 /\ forget_prob = 0) =>
    /\ Cardinality(VisitedCells(grid, size)) = ticks
    /\ Len(order) = ticks
    /\ \A i, j \in 1..Len(order) : i # j => order[i] # order[j]
    /\ ~is_trapped => \A i \in 1..Len(order) : order[i] # agent_location

\* C19: for size >= 4 with forget_probability = 1 no cell is ever marked
\* and the engine is never trapped, so a driver run with max_steps = 0 never
\* reaches FINISHED.
C19_ForgetAllNeverTraps ==
  (engine /\ ValidConfig /\ size >= 4 /\ forget_prob = 10) =>
    /\ grid = Zeros(size)
    /\ order = <<>>
    /\ ~is_trapped
    /\ max_steps = 0 => state # "FINISHED"

\* C19 witness: a driver run with sparsity 1 and length 0 still simulating
\* after three steps, the agent in the corner (0,0) of the grid
C19_Witness ==
  /\ state = "SIMULATING" /\ running
  /\ engine /\ size >= 4 /\ forget_prob = 10 /\ max_steps = 0
  /\ ticks >= 3 /\ step_count = ticks
  /\ agent_location = <<0, 0>>

====
